---- MODULE Spec2Model ----
(***************************************************************************)
(* A model of pambox/idealobs.py: the IdealObs object (k, q, sigma_s, m),  *)
(* its transform _snrenv_to_pc / snrenv_to_pc, get_params and fit_obs.     *)
(*                                                                         *)
(* Floating-point values are records [kind, val]: kind "fin" carries a     *)
(* fixed-point number in thousandths (val = 1095 is 1.095), kinds "nan",   *)
(* "inf", "ninf" are IEEE's non-finite values and kind "None" is Python's  *)
(* None.  m (a count) is carried unscaled.  Equality of two such records is *)
(* identity of representation (NaN equals NaN), not IEEE's ==.             *)
(*                                                                         *)
(* scipy.optimize.leastsq is outside the repository: it is modelled by     *)
(* what fit_obs can observe of it.  It calls the residual function, first  *)
(* at p0; it raises TypeError when the parameters outnumber the residuals; *)
(* it returns a vector as long as p0, converged or not, finite or not.     *)
(***************************************************************************)
EXTENDS Integers, Sequences, FiniteSets, TLC

\* ------------------------------------------------------------------ bounds
\* Longest snrenv / pcdata array drawn as an input.
MaxLen == 3
\* Residual evaluations the optimizer may make in one fit.
MaxEvals == 2
\* Consecutive snrenv_to_pc calls with the same input that are told apart.
MaxRepeat == 2

\* ------------------------------------------------------------ float values
Fin(n) == [kind |-> "fin", val |-> n]
NaN == [kind |-> "nan", val |-> 0]
PInf == [kind |-> "inf", val |-> 0]
NInf == [kind |-> "ninf", val |-> 0]
None == [kind |-> "None", val |-> 0]

IsFin(a) == a.kind = "fin"
IsNaN(a) == a.kind = "nan"
\* math.isfinite
IsFinite(a) == a.kind = "fin"

\* The sign of a float: -1, 0, 1 (NaN has none and is never asked).
Sgn(a) ==
  CASE a.kind = "inf" -> 1
    [] a.kind = "ninf" -> -1
    [] OTHER -> IF a.val > 0 THEN 1 ELSE IF a.val < 0 THEN -1 ELSE 0

Signed(s) == IF s > 0 THEN PInf ELSE NInf

FNeg(a) ==
  CASE a.kind = "fin" -> Fin(-a.val)
    [] a.kind = "inf" -> NInf
    [] a.kind = "ninf" -> PInf
    [] OTHER -> NaN

\* a + b in IEEE arithmetic
FAdd(a, b) ==
  IF IsNaN(a) \/ IsNaN(b) THEN NaN
  ELSE IF IsFin(a) /\ IsFin(b) THEN Fin(a.val + b.val)
  ELSE IF IsFin(a) THEN b
  ELSE IF IsFin(b) THEN a
  ELSE IF a.kind = b.kind THEN a ELSE NaN

FSub(a, b) == FAdd(a, FNeg(b))

\* Integer division truncating toward zero (fixed-point rounding).
TDiv(n, d) ==
  IF (n >= 0) = (d > 0)
    THEN (IF n >= 0 THEN n ELSE -n) \div (IF d > 0 THEN d ELSE -d)
    ELSE -((IF n >= 0 THEN n ELSE -n) \div (IF d > 0 THEN d ELSE -d))

\* a * b in IEEE arithmetic (thousandths)
FMul(a, b) ==
  IF IsNaN(a) \/ IsNaN(b) THEN NaN
  ELSE IF IsFin(a) /\ IsFin(b) THEN Fin(TDiv(a.val * b.val, 1000))
  ELSE IF Sgn(a) = 0 \/ Sgn(b) = 0 THEN NaN
  ELSE Signed(Sgn(a) * Sgn(b))

\* a / b in numpy's float64 arithmetic: x / 0 is +-inf (a warning, no error)
FDiv(a, b) ==
  IF IsNaN(a) \/ IsNaN(b) THEN NaN
  ELSE IF IsFin(a) /\ IsFin(b) THEN
    IF b.val = 0
      THEN (IF a.val = 0 THEN NaN ELSE Signed(Sgn(a)))
      ELSE Fin(TDiv(a.val * 1000, b.val))
  ELSE IF IsFin(a) THEN Fin(0)
  ELSE IF IsFin(b) THEN Signed(Sgn(a) * (IF Sgn(b) < 0 THEN -1 ELSE 1))
  ELSE NaN

RECURSIVE SqrtIter(_, _, _)
\* The largest r in lo..hi with r * r <= n (bisection).
SqrtIter(n, lo, hi) ==
  IF lo >= hi THEN lo
  ELSE LET mid == (lo + hi + 1) \div 2
       IN IF mid * mid <= n THEN SqrtIter(n, mid, hi)
                            ELSE SqrtIter(n, lo, mid - 1)

ISqrt(n) == SqrtIter(n, 0, 46340)

\* np.sqrt: NaN for a negative argument
FSqrt(a) ==
  CASE a.kind = "nan" -> NaN
    [] a.kind = "inf" -> PInf
    [] a.kind = "ninf" -> NaN
    [] OTHER -> IF a.val < 0 THEN NaN ELSE Fin(ISqrt(a.val * 1000))

\* x ** q elementwise (numpy): the exponents the model draws are 1, 0.5,
\* -0.5, 0 and NaN.  A fractional power of a negative number is NaN and
\* raises nothing.
FPow(x, q) ==
  IF IsNaN(x) \/ IsNaN(q) THEN NaN
  ELSE IF q.val = 1000 THEN x
  ELSE IF q.val = 0 THEN Fin(1000)
  ELSE IF q.val = 500 THEN FSqrt(x)
  ELSE FDiv(Fin(1000), FSqrt(x))

\* ------------------------------------------------------------- scipy.stats
\* norm.ppf(1.0 - 1.0 / m), for the vocabulary sizes the model draws (m is a
\* count and is carried unscaled).  1.0 / m raises ZeroDivisionError for
\* m = 0; 1 - 1/m is 0 for m = 1 (ppf = -inf) and lies outside [0, 1] for a
\* negative m or 0 < m < 1 (ppf = NaN).
Ok(v) == [exc |-> "", val |-> v]
Raise(e) == [exc |-> e, val |-> <<>>]

PpfUpper(m) ==
  IF m.val = 0 THEN Raise("ZeroDivisionError")
  ELSE IF m.val < 0 THEN Ok(NaN)
  ELSE IF m.val = 1 THEN Ok(NInf)
  ELSE IF m.val = 2 THEN Ok(Fin(0))
  ELSE IF m.val = 100 THEN Ok(Fin(2326))
  ELSE Ok(Fin(3662))

\* The standard normal distribution function in thousandths, tabulated every
\* quarter of a standard deviation from -4 to 4.
PhiTable ==
  << 0, 0, 0, 1, 1, 3, 6, 12, 23, 40, 67, 106, 159, 227, 309, 401, 500,
     599, 691, 773, 841, 894, 933, 960, 977, 988, 994, 997, 999, 999,
     1000, 1000, 1000 >>

Phi(z) ==
  CASE z.kind = "nan" -> NaN
    [] z.kind = "inf" -> Fin(1000)
    [] z.kind = "ninf" -> Fin(0)
    [] OTHER ->
       IF z.val <= -4000 THEN Fin(0)
       ELSE IF z.val >= 4000 THEN Fin(1000)
       ELSE Fin(PhiTable[((z.val + 4000 + 125) \div 250) + 1])

\* norm.cdf(x, loc, scale): NaN unless scale > 0
norm_cdf(x, loc, scale) ==
  IF IsNaN(scale) \/ scale.kind = "ninf" \/ (IsFin(scale) /\ scale.val <= 0)
    THEN NaN
    ELSE Phi(FDiv(FSub(x, loc), scale))

\* ---------------------------------------------------- StatisticalTransform
\* IdealObs._snrenv_to_pc: the percent-correct array of an snrenv array, or
\* the exception the computation of Un raises.
_snrenv_to_pc(snrenv, k, q, sigma_s, m) ==
  LET U == PpfUpper(m) IN
  IF U.exc # "" THEN U
  ELSE
    LET Un == U.val
        sn == FDiv(Fin(1283), Un)
        un == FAdd(Un, FDiv(Fin(577), Un))
        sd == FSqrt(FAdd(FMul(sigma_s, sigma_s), FMul(sn, sn)))
    IN Ok([i \in 1..Len(snrenv) |->
             FMul(norm_cdf(FMul(k, FPow(snrenv[i], q)), un, sd), Fin(100000))])

\* --------------------------------------------------------------- IdealObs
\* IdealObs.__init__: the four values are stored as given; nothing is checked.
__init__(k, q, sigma_s, m) == [k |-> k, q |-> q, sigma_s |-> sigma_s, m |-> m]

\* A method is an operator from the object (and the arguments) to the object
\* after the call (self) and what the call returns (ret).

\* get_params with a copy-and-paste slip: the value of q under the key sigma_s
get_params_slip(o) ==
  [self |-> o,
   ret |-> [k |-> o.k, q |-> o.q, sigma_s |-> o.q, m |-> o.m]]

\* IdealObs.get_params: a new dict of the four attributes
get_params(o) ==
  [self |-> o,
   ret |-> [k |-> o.k, q |-> o.q, sigma_s |-> o.sigma_s, m |-> o.m]]

\* snrenv_to_pc transforming with the default vocabulary size and keeping it
\* in self.m
snrenv_to_pc_default_m(o, snrenv) ==
  [self |-> [o EXCEPT !.m = Fin(8000)],
   ret |-> _snrenv_to_pc(snrenv, o.k, o.q, o.sigma_s, Fin(8000))]

\* IdealObs.snrenv_to_pc
snrenv_to_pc(o, snrenv) ==
  [self |-> o, ret |-> _snrenv_to_pc(snrenv, o.k, o.q, o.sigma_s, o.m)]

\* Python's truth value of an optional float argument: None and 0.0 are
\* false, every other float (NaN too) is true.
Truthy(v) == ~(v.kind = "None" \/ (v.kind = "fin" /\ v.val = 0))

\* fit_obs, `if not m: m = self.m / else: self.m = m`: the object after the
\* test and the local m the residual function closes over.
fit_m(o, m) ==
  IF ~Truthy(m) THEN [self |-> o, m |-> o.m]
                ELSE [self |-> [o EXCEPT !.m = m], m |-> m]

\* fit_obs, the initial guess p0 of the branch `if sigma_s:` takes
fit_p0(o, sigma_s) ==
  IF Truthy(sigma_s) THEN <<o.k, o.q>> ELSE <<o.k, o.q, o.sigma_s>>

\* numpy's a - b on one-dimensional arrays: equal lengths, or one of them of
\* length 1 (broadcast); any other pair of lengths raises ValueError.
ArraySub(a, b) ==
  IF Len(a) = Len(b) THEN Ok([i \in 1..Len(a) |-> FSub(a[i], b[i])])
  ELSE IF Len(b) = 1 THEN Ok([i \in 1..Len(a) |-> FSub(a[i], b[1])])
  ELSE IF Len(a) = 1 THEN Ok([i \in 1..Len(b) |-> FSub(a[1], b[i])])
  ELSE Raise("ValueError")

\* The m a residual evaluation of frame f passes to _snrenv_to_pc.
errfc_m(f) == f.m

\* The sigma_s a residual evaluation of frame f passes at trial vector p.
errfc_sigma_s(f, p) == IF Truthy(f.sigma_s) THEN f.sigma_s ELSE p[3]

\* fit_obs, the residual function errfc (either lambda) at trial vector p
errfc(f, p) ==
  LET pcv == _snrenv_to_pc(f.snrenv, p[1], p[2], errfc_sigma_s(f, p),
                           errfc_m(f))
  IN IF pcv.exc # "" THEN pcv ELSE ArraySub(pcv.val, f.pcdata)

\* fit_obs after leastsq returned res: the attributes are overwritten with
\* it, whatever it holds.
fit_store(o, sigma_s, res) ==
  IF Truthy(sigma_s)
    THEN [o EXCEPT !.k = res[1], !.q = res[2], !.sigma_s = sigma_s]
    ELSE [o EXCEPT !.k = res[1], !.q = res[2], !.sigma_s = res[3]]

\* ------------------------------------------------------------------ inputs
\* The defaults of __init__, in thousandths (sqrt(1.2) = 1.095) and, for m,
\* unscaled.
Default_k == 1095
Default_q == 500
Default_sigma_s == 600
Default_m == 8000

\* What a caller passes to __init__: the defaults or explicit values, among
\* them values the parameters' documentation excludes (nothing rejects them).
InitK == {Fin(Default_k)}
InitQ == {Fin(Default_q)}
InitSigma == {Fin(Default_sigma_s), Fin(-500)}
InitM == {Fin(Default_m), Fin(1), Fin(0)}

\* What a caller passes to fit_obs for the optional sigma_s and m.
ArgSigma == {None, Fin(0), Fin(500), Fin(-500)}
ArgM == {None, Fin(0), Fin(1), Fin(100)}

Const(n, x) == [i \in 1..n |-> x]

\* snrenv arrays: positive values, and one with a negative value (outside
\* the domain of a fractional power).
SnrenvArrays ==
  {Const(n, Fin(4000)) : n \in {MaxLen - 1, MaxLen}}
    \cup {<<Fin(-1000), Fin(4000)>>}
\* pcdata arrays (percent)
PcArrays == {Const(n, Fin(50000)) : n \in {1, MaxLen}}

\* The vectors the optimizer tries and may return, besides its starting
\* point: the parameters of noise-free data (k = 1, q = 0.5, sigma_s = 0.5),
\* their mirror image in sigma_s (the residuals depend on sigma_s ** 2 only)
\* and a non-finite vector.
Points(n) ==
  {SubSeq(v, 1, n) : v \in {<<Fin(1000), Fin(500), Fin(500)>>,
                            <<Fin(1000), Fin(500), Fin(-500)>>,
                            <<NaN, NaN, NaN>>}}

\* ------------------------------------------------------------------- state
VARIABLES
  obj,     \* the attributes k, q, sigma_s, m of the IdealObs instance
  pc,      \* "idle", or "leastsq" while fit_obs is inside the optimizer
  fr,      \* the frame of the running fit_obs: arguments, locals, counters
  last,    \* the last operation: its name, exception and result
  snap     \* the dict the latest get_params returned (none: <<>>)

vars == <<obj, pc, fr, last, snap>>

NoFrame == [op |-> "none"]

\* obs = IdealObs(k, q, sigma_s, m)
Init ==
  /\ \E k \in InitK, q \in InitQ, sigma_s \in InitSigma, m \in InitM :
       obj = __init__(k, q, sigma_s, m)
  /\ last = [op |-> "__init__", exc |-> ""]
  /\ pc = "idle"
  /\ fr = NoFrame
  /\ snap = <<>>

\* obs.get_params()
GetParams ==
  /\ pc = "idle"
  /\ LET r == get_params(obj)
     IN /\ obj' = r.self
        /\ snap' = <<r.ret>>
        /\ last' = [op |-> "get_params", exc |-> ""]
  /\ UNCHANGED <<pc, fr>>

\* How many times in a row snrenv_to_pc has been called with this same input
\* (counted up to MaxRepeat).
Repeat(snrenv) ==
  IF last.op = "snrenv_to_pc" /\ last.arg = snrenv
    THEN (IF last.nth < MaxRepeat THEN last.nth + 1 ELSE MaxRepeat)
    ELSE 1

\* obs.snrenv_to_pc(snrenv)
Transform(snrenv) ==
  /\ pc = "idle"
  /\ LET r == snrenv_to_pc(obj, snrenv)
     IN /\ obj' = r.self
        /\ last' = [op |-> "snrenv_to_pc", exc |-> r.ret.exc,
                    arg |-> snrenv, ret |-> r.ret.val,
                    nth |-> Repeat(snrenv)]
  /\ UNCHANGED <<pc, fr, snap>>

\* obs.fit_obs(snrenv, pcdata, sigma_s, m) up to the call of leastsq.  The
\* frame also keeps obj as it was when fit_obs was invoked (obj0).
FitCall(snrenv, pcdata, sigma_s, m) ==
  /\ pc = "idle"
  /\ LET b == fit_m(obj, m)
     IN /\ obj' = b.self
        /\ fr' = [op |-> "fit_obs", obj0 |-> obj,
                  snrenv |-> snrenv, pcdata |-> pcdata,
                  sigma_s |-> sigma_s, m_arg |-> m, m |-> b.m,
                  p0 |-> fit_p0(obj, sigma_s),
                  nfev |-> 0, nres |-> 0, usedM |-> {}]
  /\ pc' = "leastsq"
  /\ last' = [op |-> "fit_obs", exc |-> ""]
  /\ UNCHANGED snap

\* leastsq evaluates the residual function: first at p0, then at its trial
\* vectors, as long as the residuals are at least as many as the parameters.
\* An exception of the residual function ends fit_obs.
LeastsqEval(p) ==
  /\ pc = "leastsq"
  /\ fr.nfev < MaxEvals
  /\ IF fr.nfev = 0 THEN p = fr.p0 ELSE Len(fr.p0) <= fr.nres
  /\ LET r == errfc(fr, p)
     IN IF r.exc # ""
          THEN /\ pc' = "idle"
               /\ fr' = NoFrame
               /\ last' = [op |-> "fit_obs", exc |-> r.exc]
          ELSE /\ fr' = [fr EXCEPT !.nfev = @ + 1, !.nres = Len(r.val),
                                   !.usedM = @ \cup {errfc_m(fr)}]
               /\ UNCHANGED <<pc, last>>
  /\ UNCHANGED <<obj, snap>>

\* leastsq refuses more parameters than residuals (TypeError, "Improper
\* input"), which it finds after its first evaluation.
LeastsqImproper ==
  /\ pc = "leastsq"
  /\ fr.nfev >= 1
  /\ Len(fr.p0) > fr.nres
  /\ pc' = "idle"
  /\ fr' = NoFrame
  /\ last' = [op |-> "fit_obs", exc |-> "TypeError"]
  /\ UNCHANGED <<obj, snap>>

\* leastsq returns (res, ier): whether ier reports convergence is
\* `converged`.  fit_obs keeps res ([0]), drops ier, stores res and returns
\* self.
LeastsqReturn(res, converged) ==
  /\ pc = "leastsq"
  /\ fr.nfev >= 1
  /\ Len(fr.p0) <= fr.nres
  /\ obj' = fit_store(obj, fr.sigma_s, res)
  /\ pc' = "idle"
  /\ fr' = NoFrame
  /\ last' = [op |-> "fit_obs", exc |-> "", ret |-> "self",
              res |-> res, converged |-> converged]
  /\ UNCHANGED snap

\* leastsq evaluates the residual function at some vector.
OptimizerEvaluates ==
  /\ pc = "leastsq"
  /\ \E p \in Points(Len(fr.p0)) \cup {fr.p0} : LeastsqEval(p)

\* leastsq returns some vector, converged or not.
OptimizerReturns ==
  /\ pc = "leastsq"
  /\ \E res \in Points(Len(fr.p0)) \cup {fr.p0}, c \in BOOLEAN :
       LeastsqReturn(res, c)

FitCalls ==
  \E x \in SnrenvArrays, y \in PcArrays, s \in ArgSigma, m \in ArgM :
    FitCall(x, y, s, m)

Transforms == \E x \in SnrenvArrays : Transform(x)

Next ==
  \/ GetParams
  \/ Transforms
  \/ FitCalls
  \/ OptimizerEvaluates
  \/ LeastsqImproper
  \/ OptimizerReturns

Spec == Init /\ [][Next]_vars

\* ------------------------------------------------------------ vocabulary
\* An optional argument the caller passed (anything but None).
Supplied(v) == v.kind # "None"
\* m > 1
ValidM(m) == m.kind = "inf" \/ (m.kind = "fin" /\ m.val > 1)
\* sigma_s >= 0
ValidSigma(x) == x.kind = "inf" \/ (x.kind = "fin" /\ x.val >= 0)
AllFinite(v) == \A i \in 1..Len(v) : IsFinite(v[i])

\* A Model within its documented invariants, with finite k and q.
ValidObj(o) ==
  ValidM(o.m) /\ ValidSigma(o.sigma_s) /\ IsFinite(o.k) /\ IsFinite(o.q)
ValidMArg(f) == Supplied(f.m_arg) => ValidM(f.m_arg)
ValidSigmaArg(f) == Supplied(f.sigma_s) => ValidSigma(f.sigma_s)
NonNegative(x) == \A i \in 1..Len(x) : x[i].val >= 0

\* The running fit_obs call is one nothing is wrong with: a valid Model,
\* valid optional arguments, a non-negative metric.
SoundCall ==
  /\ ValidObj(fr.obj0) /\ ValidMArg(fr) /\ ValidSigmaArg(fr)
  /\ NonNegative(fr.snrenv)
SameLength == Len(fr.snrenv) = Len(fr.pcdata)

\* A step that ends a fit_obs call, by a return or by an exception.
FitEnds == pc = "leastsq" /\ pc' = "idle"
FitSucceeds == FitEnds /\ last'.exc = ""
FitFails == FitEnds /\ last'.exc # ""
\* fit_obs returns after the optimizer converged to a finite vector.
FitConverges == FitSucceeds /\ last'.converged /\ AllFinite(last'.res)

\* ------------------------------------------------------------------ claims

\* C1: constructing a Model, or calling fit, with m <= 1 or sigma_s < 0 fails
\* with InvalidParameter, in fit before the optimizer is invoked: a
\* constructed Model never holds such a value and the optimizer is never
\* entered with such an argument.
C1_InvalidParameterRejected ==
  /\ last.op = "__init__" => ValidM(obj.m) /\ ValidSigma(obj.sigma_s)
  /\ pc = "leastsq" => ValidMArg(fr) /\ ValidSigmaArg(fr)

\* C2: every fit whose metric and observed_pc differ in length ends in an
\* error (ShapeMismatch; any exception is accepted here), and no residual
\* evaluation has run by then.  Stated of calls with nothing else wrong,
\* whose residuals are at least as many as the free parameters.
C2_ShapeMismatchBeforeOptimization ==
  [][FitEnds /\ SoundCall /\ ~SameLength /\ last'.exc # "TypeError"
       => last'.exc # "" /\ fr.nfev = 0]_vars

\* C3: when the optimizer does not converge or returns a non-finite value,
\* fit ends in ConvergenceFailure and the vector is not stored: a fit that
\* ends without an exception had a converged, finite optimizer result.
\* Stated of calls with nothing else wrong.
C3_ConvergenceFailureSurfaced ==
  [][FitSucceeds /\ SoundCall /\ SameLength
       => last'.converged /\ AllFinite(last'.res)]_vars

\* C4: for every valid sigma_s (>= 0) the caller supplies, a successful fit
\* leaves the Model's sigma_s equal to it and the free vector is [k, q].
C4_SuppliedSigmaHeldFixed ==
  [][FitConverges /\ SoundCall /\ SameLength /\ Supplied(fr.sigma_s)
       => obj'.sigma_s = fr.sigma_s /\ Len(fr.p0) = 2]_vars

\* C5: a supplied m is the Model's m after the fit and the m of every
\* residual evaluation; with m omitted both are the Model's m from before
\* the fit; the optimizer never changes m.  Stated of calls on a valid
\* Model that converge.
C5_MHeldFixed ==
  [][/\ pc = "leastsq" => obj'.m = obj.m
     /\ FitConverges /\ ValidObj(fr.obj0) /\ ValidSigmaArg(fr)
          /\ NonNegative(fr.snrenv) /\ SameLength =>
          LET mm == IF Supplied(fr.m_arg) THEN fr.m_arg ELSE fr.obj0.m
          IN obj'.m = mm /\ fr.usedM \subseteq {mm}]_vars

\* C6: after construct and fit operations that did not end in an error the
\* Model satisfies m > 1 and sigma_s >= 0.  Stated of the fit of a valid
\* Model with valid arguments: a converged fit leaves it valid.
C6_ParameterInvariants ==
  [][FitConverges /\ SoundCall /\ SameLength
       => ValidM(obj'.m) /\ ValidSigma(obj'.sigma_s)]_vars

\* C7: fit starts from the Model's k, q (and sigma_s when sigma_s is not
\* supplied) as they were when fit was invoked, overwrites exactly those
\* free parameters with the optimizer's solution, in order, and returns the
\* instance it was called on.
C7_InitialGuessAndResult ==
  [][FitConverges /\ SoundCall /\ SameLength =>
       /\ fr.p0 = IF Supplied(fr.sigma_s)
                    THEN <<fr.obj0.k, fr.obj0.q>>
                    ELSE <<fr.obj0.k, fr.obj0.q, fr.obj0.sigma_s>>
       /\ Len(last'.res) = Len(fr.p0)
       /\ obj'.k = last'.res[1]
       /\ obj'.q = last'.res[2]
       /\ IF Supplied(fr.sigma_s)
            THEN obj'.sigma_s = fr.sigma_s
            ELSE obj'.sigma_s = last'.res[3]
       /\ last'.ret = "self"]_vars

\* C8: get_params returns a mapping with exactly the keys k, q, sigma_s, m
\* holding the Model's current parameters, changes no parameter, and a
\* snapshot returned earlier is changed by no later operation.
C8_GetParamsSnapshot ==
  [][IF last'.op = "get_params" /\ pc = "idle"
       THEN /\ DOMAIN snap'[1] = {"k", "q", "sigma_s", "m"}
            /\ snap'[1].k = obj.k /\ snap'[1].q = obj.q
            /\ snap'[1].sigma_s = obj.sigma_s /\ snap'[1].m = obj.m
            /\ obj' = obj
       ELSE snap' = snap]_vars

\* A snapshot was taken and a later successful fit changed the Model's k.
C8_Witness ==
  /\ snap # <<>>
  /\ pc = "idle" /\ last.op = "fit_obs" /\ last.exc = ""
  /\ snap[1].k # obj.k

\* C9: transform changes none of the four parameters, and a transform call
\* that follows a transform call with the same input, with no fit in
\* between, returns the same output (or raises the same exception).
C9_TransformPure ==
  [][last'.op = "snrenv_to_pc" /\ pc = "idle" =>
       /\ obj' = obj
       /\ last.op = "snrenv_to_pc" /\ last.arg = last'.arg
            => last'.ret = last.ret /\ last'.exc = last.exc]_vars

\* The same input was transformed twice in a row, without an exception.
C9_Witness ==
  last.op = "snrenv_to_pc" /\ last.nth = 2 /\ last.exc = ""

\* C10: a fit call that does not succeed leaves k, q, sigma_s and m as they
\* were before the call.  Stated of calls with nothing wrong but the
\* lengths.
C10_FailedFitLeavesModel ==
  [][FitFails /\ SoundCall => obj' = fr.obj0]_vars

====
